---- MODULE Spec2Model ----
(***************************************************************************)
(* A model of the forwarding proxy in src/proxy_server.py and of the       *)
(* control surface in src/api_server.py.                                   *)
(*                                                                         *)
(* Byte strings are sequences of one-character strings; the handler       *)
(* decodes the request as iso-8859-1, so a character is one of the 256     *)
(* Latin-1 code points.  The exceptions are the symbol Fill, which stands  *)
(* for a run of RecvSize bytes 'x' (one full recv() buffer of header       *)
(* filler) and lets a 64 KiB header block be written down in sixteen       *)
(* symbols (BLen gives the real length), and the two symbols for the       *)
(* characters outside Latin-1 that str.upper() can produce.                *)
(***************************************************************************)
EXTENDS Naturals, Integers, Sequences, FiniteSets, TLC

-----------------------------------------------------------------------------
(* Byte-string primitives (the Python str/bytes methods the handler uses).  *)

RecvSize == 4096
HeaderLimit == 65536
MaxPort == 65535
DefaultPort == 80

Fill == "FILL"
None == <<"<None>">>

(* The cased letters of Latin-1 whose other case is in Latin-1 too: A-Z and *)
(* U+00C0..U+00DE without the multiplication sign, with a-z and            *)
(* U+00E0..U+00FE without the division sign.                               *)
UpperChars == <<"A","B","C","D","E","F","G","H","I","J","K","L","M",
                "N","O","P","Q","R","S","T","U","V","W","X","Y","Z",
                "À","Á","Â","Ã","Ä","Å","Æ","Ç","È","É","Ê","Ë","Ì","Í","Î",
                "Ï","Ð","Ñ","Ò","Ó","Ô","Õ","Ö","Ø","Ù","Ú","Û","Ü","Ý","Þ">>
LowerChars == <<"a","b","c","d","e","f","g","h","i","j","k","l","m",
                "n","o","p","q","r","s","t","u","v","w","x","y","z",
                "à","á","â","ã","ä","å","æ","ç","è","é","ê","ë","ì","í","î",
                "ï","ð","ñ","ò","ó","ô","õ","ö","ø","ù","ú","û","ü","ý","þ">>
DigitChars == <<"0","1","2","3","4","5","6","7","8","9">>

(* The blank characters with no TLA+ escape, each written as the character  *)
(* itself: U+000B, U+001C, U+001D, U+001E, U+001F, U+0085 and U+00A0.        *)
VT == ""
FS == ""
GS == ""
RS == ""
US == ""
NEL == ""
NBSP == " "

(* The Latin-1 characters c with c.isspace(): what str.strip() removes.    *)
SpaceChars == {" ", "\t", "\r", "\n", "\f", VT, FS, GS, RS, US, NEL, NBSP}

(* The characters int() skips around a number: U+001C..U+001F are not      *)
(* among them.                                                             *)
IntSpaceChars == {" ", "\t", "\r", "\n", "\f", VT, NEL, NBSP}

IndexIn(tab, ch) == IF \E i \in 1..Len(tab) : tab[i] = ch
                    THEN CHOOSE i \in 1..Len(tab) : tab[i] = ch
                    ELSE 0

(* The two tables as functions from a letter to its other case. *)
LowerOf == [c \in {UpperChars[i] : i \in 1..Len(UpperChars)} |-> LowerChars[IndexIn(UpperChars, c)]]
UpperOf == [c \in {LowerChars[i] : i \in 1..Len(LowerChars)} |-> UpperChars[IndexIn(LowerChars, c)]]

LowerCh(ch) == IF ch \in DOMAIN LowerOf THEN LowerOf[ch] ELSE ch
UpperCh(ch) == IF ch \in DOMAIN UpperOf THEN UpperOf[ch] ELSE ch

lower(s) == [i \in 1..Len(s) |-> LowerCh(s[i])]

(* str.upper() of one character.  Three Latin-1 letters have an upper case  *)
(* that is not one Latin-1 character: U+00DF gives 'SS', U+00FF gives        *)
(* U+0178 and U+00B5 gives U+039C (written here as the symbols "U+0178"      *)
(* and "U+039C").                                                            *)
UpperSeq(ch) == IF ch = "ß" THEN <<"S","S">>
                ELSE IF ch = "ÿ" THEN <<"U+0178">>
                ELSE IF ch = "µ" THEN <<"U+039C">>
                ELSE <<UpperCh(ch)>>

RECURSIVE upper(_)
upper(s) == IF s = <<>> THEN <<>> ELSE UpperSeq(Head(s)) \o upper(Tail(s))

RECURSIVE BLen(_)
BLen(s) == IF s = <<>> THEN 0
           ELSE (IF Head(s) = Fill THEN RecvSize ELSE 1) + BLen(Tail(s))

startswith(s, p) == Len(s) >= Len(p) /\ SubSeq(s, 1, Len(p)) = p

(* Index of the first occurrence of the non-empty string sub in s, 0 if none. *)
find(s, sub) ==
    LET hits == {i \in 1..(Len(s) + 1 - Len(sub)) : SubSeq(s, i, i + Len(sub) - 1) = sub}
    IN  IF Len(sub) > Len(s) \/ hits = {} THEN 0
        ELSE CHOOSE i \in hits : \A j \in hits : i <= j

rfind(s, sub) ==
    LET hits == {i \in 1..(Len(s) + 1 - Len(sub)) : SubSeq(s, i, i + Len(sub) - 1) = sub}
    IN  IF Len(sub) > Len(s) \/ hits = {} THEN 0
        ELSE CHOOSE i \in hits : \A j \in hits : i >= j

contains(s, sub) == find(s, sub) > 0

(* s.split(sep, n): at most n splits, left to right; a list of n+1 or fewer pieces. *)
RECURSIVE split(_, _, _)
split(s, sep, n) ==
    IF n = 0 \/ find(s, sep) = 0 THEN <<s>>
    ELSE <<SubSeq(s, 1, find(s, sep) - 1)>>
         \o split(SubSeq(s, find(s, sep) + Len(sep), Len(s)), sep, n - 1)

(* s.split(sep) with no limit: Len(s) splits can never be exhausted. *)
splitall(s, sep) == split(s, sep, Len(s))

RECURSIVE lstrip(_)
lstrip(s) == IF s # <<>> /\ Head(s) \in SpaceChars THEN lstrip(Tail(s)) ELSE s

RECURSIVE rstrip(_)
rstrip(s) == IF s # <<>> /\ s[Len(s)] \in SpaceChars THEN rstrip(SubSeq(s, 1, Len(s) - 1)) ELSE s

strip(s) == rstrip(lstrip(s))

(* s.isdigit() and s.isascii() *)
isdigits(s) == s # <<>> /\ \A i \in 1..Len(s) : IndexIn(DigitChars, s[i]) > 0

(* int(s), base 10: blanks around the number, one optional sign, decimal     *)
(* digits with single underscores between digits, at most MaxStrDigits       *)
(* digits (sys.int_info.default_max_str_digits); anything else raises        *)
(* ValueError.                                                               *)
MaxStrDigits == 4300

RECURSIVE int_lstrip(_)
int_lstrip(s) == IF s # <<>> /\ Head(s) \in IntSpaceChars THEN int_lstrip(Tail(s)) ELSE s

RECURSIVE int_rstrip(_)
int_rstrip(s) == IF s # <<>> /\ s[Len(s)] \in IntSpaceChars
                 THEN int_rstrip(SubSeq(s, 1, Len(s) - 1)) ELSE s

int_sign(s) == IF int_lstrip(s) # <<>> /\ Head(int_lstrip(s)) = "-" THEN -1 ELSE 1

int_digits(s) ==
    LET t == int_rstrip(int_lstrip(s))
    IN  IF t # <<>> /\ Head(t) \in {"+", "-"} THEN Tail(t) ELSE t

IsDigit(ch) == IndexIn(DigitChars, ch) > 0

int_raises(s) ==
    LET d == int_digits(s)
    IN  \/ d = <<>>
        \/ \E i \in 1..Len(d) :
              /\ ~IsDigit(d[i])
              /\ ~(d[i] = "_" /\ 1 < i /\ i < Len(d) /\ IsDigit(d[i - 1]) /\ IsDigit(d[i + 1]))
        \/ Cardinality({i \in 1..Len(d) : IsDigit(d[i])}) > MaxStrDigits

RECURSIVE digits_value(_)
digits_value(d) ==
    IF d = <<>> THEN 0
    ELSE IF d[Len(d)] = "_" THEN digits_value(SubSeq(d, 1, Len(d) - 1))
    ELSE 10 * digits_value(SubSeq(d, 1, Len(d) - 1)) + (IndexIn(DigitChars, d[Len(d)]) - 1)

(* The value of int(s) when it does not raise. *)
int(s) == int_sign(s) * digits_value(int_digits(s))

(* str(n) for a natural number. *)
RECURSIVE str(_)
str(n) == IF n < 10 THEN <<DigitChars[n + 1]>>
          ELSE str(n \div 10) \o <<DigitChars[(n % 10) + 1]>>

RECURSIVE join(_, _)
join(sep, parts) == IF parts = <<>> THEN <<>>
                    ELSE IF Len(parts) = 1 THEN parts[1]
                    ELSE parts[1] \o sep \o join(sep, Tail(parts))

(* s.partition(sep) and s.rpartition(sep) as <<before, sep-or-empty, after>>. *)
partition(s, sep) ==
    IF find(s, sep) = 0 THEN <<s, <<>>, <<>>>>
    ELSE <<SubSeq(s, 1, find(s, sep) - 1), sep, SubSeq(s, find(s, sep) + Len(sep), Len(s))>>

rpartition(s, sep) ==
    IF rfind(s, sep) = 0 THEN <<(<<>>), <<>>, s>>
    ELSE <<SubSeq(s, 1, rfind(s, sep) - 1), sep, SubSeq(s, rfind(s, sep) + Len(sep), Len(s))>>

-----------------------------------------------------------------------------
(* Literals of the source.                                                   *)

CRLF == <<"\r","\n">>
CRLFCRLF == <<"\r","\n","\r","\n">>
SP == <<" ">>
COLON == <<":">>
HttpPrefix == <<"h","t","t","p",":","/","/">>
HttpsPrefix == <<"h","t","t","p","s",":","/","/">>
NoneText == <<"N","o","n","e">>
HostKey == <<"h","o","s","t">>
ConnectionKey == <<"c","o","n","n","e","c","t","i","o","n">>
ProxyConnectionKey == <<"p","r","o","x","y","-","c","o","n","n","e","c","t","i","o","n">>
GET == <<"G","E","T">>
CONNECT == <<"C","O","N","N","E","C","T">>
StatusPrefix == <<"H","T","T","P","/","1",".","1"," ">>
ContentTypeLine == <<"C","o","n","t","e","n","t","-","T","y","p","e",":"," ","t","e","x","t","/","h","t","m","l",";"," ","c","h","a","r","s","e","t","=","u","t","f","-","8">>
ContentLengthPrefix == <<"C","o","n","t","e","n","t","-","L","e","n","g","t","h",":"," ">>
ConnectionCloseLine == <<"C","o","n","n","e","c","t","i","o","n",":"," ","c","l","o","s","e">>
HostPrefix == <<"H","o","s","t",":"," ">>
Established == <<"H","T","T","P","/","1",".","1"," ","2","0","0"," ","C","o","n","n","e","c","t","i","o","n"," ","E","s","t","a","b","l","i","s","h","e","d","\r","\n","\r","\n">>
BadConnectBody == <<"<","h","1",">","B","a","d"," ","C","O","N","N","E","C","T"," ","r","e","q","u","e","s","t","<","/","h","1",">">>
AccessDeniedBody == <<"<","h","1",">","A","c","c","e","s","s"," ","D","e","n","i","e","d","<","/","h","1",">">>
BadGatewayBody == <<"<","h","1",">","B","a","d"," ","G","a","t","e","w","a","y","<","/","h","1",">">>
BadRequestReason == <<"B","a","d"," ","R","e","q","u","e","s","t">>
ForbiddenReason == <<"F","o","r","b","i","d","d","e","n">>
BadGatewayReason == <<"B","a","d"," ","G","a","t","e","w","a","y">>

make_http_response(status_code, reason, body) ==
    join(CRLF, << StatusPrefix \o str(status_code) \o SP \o reason,
                  ContentTypeLine,
                  ContentLengthPrefix \o str(BLen(body)),
                  ConnectionCloseLine >>) \o CRLFCRLF \o body

Resp400 == make_http_response(400, BadRequestReason, BadConnectBody)
Resp403 == make_http_response(403, ForbiddenReason, AccessDeniedBody)
Resp502 == make_http_response(502, BadGatewayReason, BadGatewayBody)

-----------------------------------------------------------------------------
(* _recv_until_double_crlf.  The client's behaviour on the socket is a       *)
(* script: the chunks successive recv() calls return, and what the recv()    *)
(* after the last chunk does: "eof" (returns b''), "timeout" (raises) or     *)
(* "more" (the script is never exhausted because the loop stops first).      *)

RECURSIVE recv_loop(_, _, _)
recv_loop(data, chunks, ending) ==
    IF ~(~contains(data, CRLFCRLF) /\ BLen(data) < HeaderLimit) THEN data
    ELSE IF chunks # <<>> THEN recv_loop(data \o Head(chunks), Tail(chunks), ending)
    ELSE IF ending = "eof" THEN data
    ELSE <<>>

recv_until_double_crlf(script) == recv_loop(<<>>, script.chunks, script.ending)

-----------------------------------------------------------------------------
(* _parse_request.  A dict is a sequence of <<key, value>> pairs in          *)
(* insertion order; assigning to a key that is present replaces the value    *)
(* in place.                                                                 *)

dict_has(d, k) == \E i \in 1..Len(d) : d[i][1] = k

dict_get(d, k) == IF dict_has(d, k) THEN d[CHOOSE i \in 1..Len(d) : d[i][1] = k][2] ELSE None

dict_set(d, k, v) == IF dict_has(d, k)
                     THEN [i \in 1..Len(d) |-> IF d[i][1] = k THEN <<k, v>> ELSE d[i]]
                     ELSE Append(d, <<k, v>>)

RECURSIVE parse_headers(_, _)
parse_headers(lines, headers) ==
    IF lines = <<>> THEN headers
    ELSE IF contains(Head(lines), COLON)
         THEN parse_headers(Tail(lines),
                            dict_set(headers,
                                     strip(split(Head(lines), COLON, 1)[1]),
                                     strip(split(Head(lines), COLON, 1)[2])))
         ELSE parse_headers(Tail(lines), headers)

(* Returns [ok, method, url, version, headers, body]; ok = FALSE is the      *)
(* (None, {}, b'') result.                                                   *)
parse_request(data) ==
    LET cut         == split(data, CRLFCRLF, 1)
        header_part == cut[1]
        body        == IF Len(cut) = 2 THEN cut[2] ELSE <<>>
        lines       == splitall(header_part, CRLF)
        first       == split(lines[1], SP, 2)
    IN  IF Len(first) # 3
        THEN [ok |-> FALSE, method |-> <<>>, url |-> <<>>, version |-> <<>>,
              headers |-> <<>>, body |-> <<>>]
        ELSE [ok |-> TRUE, method |-> first[1], url |-> first[2], version |-> first[3],
              headers |-> parse_headers(Tail(lines), <<>>), body |-> body]

-----------------------------------------------------------------------------
(* urllib.parse.urlparse on a string that starts with 'http://' (the only    *)
(* kind line 106 passes), and the attributes of the result the handler       *)
(* reads.  The NFKC check of the netloc raises for no Latin-1 character.     *)

(* ipaddress.IPv4Address(s), as used for the dotted suffix of an IPv6        *)
(* address, does not raise.                                                  *)
parse_octet_ok(o) ==
    /\ isdigits(o)
    /\ Len(o) <= 3
    /\ (o = <<"0">> \/ o[1] # "0")
    /\ int(o) <= 255

IPv4Address_ok(a) ==
    /\ a # <<>>
    /\ ~contains(a, <<"/">>)
    /\ Len(splitall(a, <<".">>)) = 4
    /\ \A i \in 1..4 : parse_octet_ok(splitall(a, <<".">>)[i])

HexChars == {"0","1","2","3","4","5","6","7","8","9",
             "a","b","c","d","e","f","A","B","C","D","E","F"}

parse_hextet_ok(t) == t # <<>> /\ Len(t) <= 4 /\ \A i \in 1..Len(t) : t[i] \in HexChars

(* ipaddress.IPv6Address(a) does not raise (__init__, _split_scope_id,       *)
(* _ip_int_from_string).  A valid dotted suffix stands for two hextets.      *)
IPv6Address_ok(a) ==
    LET sc    == partition(a, <<"%">>)
        ip    == sc[1]
        raw   == splitall(ip, COLON)
        v4    == contains(raw[Len(raw)], <<".">>)
        parts == IF v4 THEN SubSeq(raw, 1, Len(raw) - 1) \o << <<"0">>, <<"0">> >> ELSE raw
        n     == Len(parts)
        skips == {i \in 2..(n - 1) : parts[i] = <<>>}
        skip  == CHOOSE i \in skips : TRUE
        hi    == IF parts[1] = <<>> THEN skip - 2 ELSE skip - 1
        lo    == IF parts[n] = <<>> THEN n - skip - 1 ELSE n - skip
    IN  /\ ~contains(a, <<"/">>)
        /\ sc[2] = <<>> \/ (sc[3] # <<>> /\ ~contains(sc[3], <<"%">>))
        /\ ip # <<>>
        /\ Len(raw) >= 3
        /\ v4 => IPv4Address_ok(raw[Len(raw)])
        /\ n <= 9
        /\ Cardinality(skips) <= 1
        /\ IF skips # {}
           THEN /\ parts[1] = <<>> => hi = 0
                /\ parts[n] = <<>> => lo = 0
                /\ 8 - (hi + lo) >= 1
                /\ \A i \in 1..hi : parse_hextet_ok(parts[i])
                /\ \A i \in (n - lo + 1)..n : parse_hextet_ok(parts[i])
           ELSE /\ n = 8
                /\ \A i \in 1..n : parse_hextet_ok(parts[i])

(* _check_bracketed_host(hostname) does not raise: an IPvFuture literal      *)
(* matching \Av[a-fA-F0-9]+\..+\Z, or an IPv6 address.                       *)
check_bracketed_host_ok(host) ==
    IF startswith(host, <<"v">>)
    THEN LET dot == find(host, <<".">>)
         IN  /\ dot > 2
             /\ \A i \in 2..(dot - 1) : host[i] \in HexChars
             /\ dot < Len(host)
             /\ \A i \in (dot + 1)..Len(host) : host[i] # "\n"
    ELSE IPv6Address_ok(host)

(* urlsplit lines that remove TAB, CR and LF from the URL. *)
IsSafeUrlChar(ch) == ch \notin {"\t", "\r", "\n"}
remove_unsafe(u) == SelectSeq(u, IsSafeUrlChar)

FirstOf(s, chars) ==
    LET hits == {i \in 1..Len(s) : s[i] \in chars}
    IN  IF hits = {} THEN Len(s) + 1 ELSE CHOOSE i \in hits : \A j \in hits : i <= j

(* _splitnetloc(url, 2) of the URL without its 'http:' scheme. *)
splitnetloc(u) ==
    LET rest  == SubSeq(remove_unsafe(u), Len(HttpPrefix) + 1, Len(remove_unsafe(u)))
        delim == FirstOf(rest, {"/", "?", "#"})
    IN  <<SubSeq(rest, 1, delim - 1), SubSeq(rest, delim, Len(rest))>>

(* urlparse(u) raises ValueError: a bracket without its partner in the       *)
(* netloc, or a bracketed host that is no IPv6 or IPvFuture literal.         *)
urlparse_raises(u) ==
    LET netloc == splitnetloc(u)[1]
        open   == contains(netloc, <<"[">>)
        close  == contains(netloc, <<"]">>)
    IN  \/ open /\ ~close
        \/ close /\ ~open
        \/ /\ open /\ close
           /\ ~check_bracketed_host_ok(
                  partition(partition(netloc, <<"[">>)[3], <<"]">>)[1])

splitparams(url) ==
    LET start == IF contains(url, <<"/">>) THEN rfind(url, <<"/">>) ELSE 1
        rest  == SubSeq(url, start, Len(url))
        i     == IF find(rest, <<";">>) = 0 THEN 0 ELSE start - 1 + find(rest, <<";">>)
    IN  IF i = 0 THEN <<url, <<>>>>
        ELSE <<SubSeq(url, 1, i - 1), SubSeq(url, i + 1, Len(url))>>

urlparse(u) ==
    LET netloc   == splitnetloc(u)[1]
        url1     == splitnetloc(u)[2]
        fsplit   == split(url1, <<"#">>, 1)
        fragment == IF Len(fsplit) = 2 THEN fsplit[2] ELSE <<>>
        qsplit   == split(fsplit[1], <<"?">>, 1)
        query    == IF Len(qsplit) = 2 THEN qsplit[2] ELSE <<>>
        psplit   == IF contains(qsplit[1], <<";">>) THEN splitparams(qsplit[1])
                    ELSE <<qsplit[1], <<>>>>
    IN  [scheme |-> <<"h","t","t","p">>, netloc |-> netloc, path |-> psplit[1],
         params |-> psplit[2], query |-> query, fragment |-> fragment]

geturl(p) ==
    LET url1 == IF p.params # <<>> THEN p.path \o <<";">> \o p.params ELSE p.path
        url2 == IF p.netloc # <<>> \/ ~startswith(url1, <<"/","/">>)
                THEN <<"/","/">> \o p.netloc
                     \o (IF url1 # <<>> /\ Head(url1) # "/" THEN <<"/">> ELSE <<>>) \o url1
                ELSE url1
        url3 == p.scheme \o COLON \o url2
        url4 == IF p.query # <<>> THEN url3 \o <<"?">> \o p.query ELSE url3
    IN  IF p.fragment # <<>> THEN url4 \o <<"#">> \o p.fragment ELSE url4

(* _hostinfo as <<hostname, separator, port>>: a bracketed host ends at the  *)
(* closing bracket and the port follows the next colon.                      *)
hostinfo(p) ==
    LET info == rpartition(p.netloc, <<"@">>)[3]
        br   == partition(info, <<"[">>)
        cl   == partition(br[3], <<"]">>)
    IN  IF br[2] # <<>>
        THEN <<cl[1], partition(cl[3], COLON)[2], partition(cl[3], COLON)[3]>>
        ELSE partition(info, COLON)

(* parsed.hostname: None when the host part is empty, else lowercased up to *)
(* a '%' (the zone of a scoped address keeps its case).                      *)
hostname(p) ==
    IF hostinfo(p)[1] = <<>> THEN None
    ELSE LET z == partition(hostinfo(p)[1], <<"%">>)
         IN  lower(z[1]) \o z[2] \o z[3]

(* parsed.port raises ValueError for a port that is not a decimal number in *)
(* 0..65535; an absent or empty port is None (here 0, which `or 80` also    *)
(* replaces by 80).                                                         *)
port_raises(p) == hostinfo(p)[3] # <<>>
                  /\ (~isdigits(hostinfo(p)[3]) \/ int(hostinfo(p)[3]) > MaxPort)

port_or_default(p) == IF hostinfo(p)[3] = <<>> \/ int(hostinfo(p)[3]) = 0
                      THEN DefaultPort ELSE int(hostinfo(p)[3])

-----------------------------------------------------------------------------
(* Inputs.  What a client puts on the wire (a script for the header read),   *)
(* what an origin answers, and what the operator blocks.                     *)

ReqGetAbs == <<"G","E","T"," ","h","t","t","p",":","/","/","a","/","p"," ","H","T","T","P","/","1",".","1","\r","\n","h","o","s","t",":"," ","a","\r","\n","\r","\n">>
ReqGetRelHost == <<"G","E","T"," ","/","p"," ","H","T","T","P","/","1",".","1","\r","\n","H","o","s","t",":"," ","a","\r","\n","\r","\n">>
ReqGetRelhost == <<"G","E","T"," ","/","p"," ","H","T","T","P","/","1",".","1","\r","\n","h","o","s","t",":"," ","a","\r","\n","\r","\n">>
ReqGetRelHOST == <<"G","E","T"," ","/","p"," ","H","T","T","P","/","1",".","1","\r","\n","H","O","S","T",":"," ","a","\r","\n","\r","\n">>
ReqPostAbs == <<"P","O","S","T"," ","h","t","t","p",":","/","/","a","/","p"," ","H","T","T","P","/","1",".","1","\r","\n","C","o","n","n","e","c","t","i","o","n",":"," ","k","e","e","p","-","a","l","i","v","e","\r","\n","\r","\n","x","y">>
ReqGetDup == <<"G","E","T"," ","h","t","t","p",":","/","/","a","/","p"," ","H","T","T","P","/","1",".","1","\r","\n","H","O","S","T",":"," ","b","\r","\n","k",":"," ","1","\r","\n","k",":"," ","2","\r","\n","p","r","o","x","y","-","C","o","n","n","e","c","t","i","o","n",":"," ","x","\r","\n","\r","\n">>
ReqLowerGet == <<"g","e","t"," ","h","t","t","p",":","/","/","a","/","p"," ","H","T","T","P","/","1",".","1","\r","\n","\r","\n">>
ReqConnect == <<"C","O","N","N","E","C","T"," ","a",":","4","4","3"," ","H","T","T","P","/","1",".","1","\r","\n","\r","\n">>
ReqConnectBadPort == <<"C","O","N","N","E","C","T"," ","a",":","x"," ","H","T","T","P","/","1",".","1","\r","\n","\r","\n">>
ReqGarbage == <<"h","e","l","l","o","\r","\n","\r","\n">>
ReqBadPort == <<"G","E","T"," ","h","t","t","p",":","/","/","a",":","z","/","p"," ","H","T","T","P","/","1",".","1","\r","\n","\r","\n">>
ReqBadBracket == <<"G","E","T"," ","h","t","t","p",":","/","/","[","a","/","p"," ","H","T","T","P","/","1",".","1","\r","\n","\r","\n">>
ReqPartial == <<"G","E","T"," ","h","t","t","p",":","/","/","a","/","p"," ","H","T","T","P","/","1",".","1","\r","\n">>
ReqLongHead == <<"G","E","T"," ","h","t","t","p",":","/","/","a","/","p"," ","H","T","T","P","/","1",".","1","\r","\n","k",":"," ">>

FillChunk == <<Fill>>
FillChunks == [i \in 1..(HeaderLimit \div RecvSize) |-> FillChunk]

Whole(req) == [chunks |-> <<req>>, ending |-> "more"]

Scripts ==
    { Whole(ReqGetAbs), Whole(ReqGetRelHost), Whole(ReqGetRelhost),
      Whole(ReqGetRelHOST), Whole(ReqGetDup), Whole(ReqPostAbs), Whole(ReqLowerGet), Whole(ReqConnect),
      Whole(ReqConnectBadPort),
      Whole(ReqGarbage), Whole(ReqBadPort), Whole(ReqBadBracket),
      [chunks |-> <<>>, ending |-> "eof"],
      [chunks |-> <<ReqPartial>>, ending |-> "eof"],
      [chunks |-> <<ReqPartial>>, ending |-> "timeout"],
      [chunks |-> <<ReqLongHead>> \o FillChunks, ending |-> "more"] }

OriginChunks == { <<"o","k">> }
Domains == { <<"A">> }

(* A failing sendall() may have put a prefix of the data on the wire.        *)
FailPrefixes == {0, 1}

MaxChunks == 2
MaxRounds == 2
MaxLog == 2

(* The handler threads alive at one time.  This specification runs one       *)
(* handler at a time against the stores and the operator; a finished thread  *)
(* makes room for the thread of the next connection.                         *)
Conns == {1}

-----------------------------------------------------------------------------
(* The stores (utils.cache_manager, utils.filter_manager,                    *)
(* utils.logger_manager), as the specification describes them (section 4.1): *)
(* atomic operations that do not fail.                                       *)

VARIABLES
    denylist,   \* set of lowercased hostnames
    cache,      \* function: URL -> response bytes
    log,        \* sequence of [client, url, action]
    h,          \* h[c]: the handler thread of connection c (its locals and sockets)
    filled      \* history: filled[u] tells whether the relay of the run that inserted u
                \* ended by upstream EOF with every chunk written to the client, and
                \* if so what that client received

is_blocked(host) == lower(host) \in denylist
add_blocked(host) == denylist \cup {lower(host)}
remove_blocked(host) == denylist \ {lower(host)}

get_from_cache(url) == IF url \in DOMAIN cache THEN cache[url] ELSE None
add_to_cache(url, data) == [u \in (DOMAIN cache) \cup {url} |-> IF u = url THEN data ELSE cache[u]]
InsertOutcomes == {TRUE}

log_action(client_ip, url, action) == Append(log, [client |-> client_ip, url |-> url, action |-> action])

(* The lifecycle controller (ProxyServer.__init__) and its threads. *)
VARIABLES
    running,          \* self.running
    port,             \* self.port
    server_socket,    \* self.server_socket: a socket id, 0 for None
    shutdown_event,   \* self.shutdown_event.is_set()
    client_threads,   \* self.client_threads: sequence of worker ids
    last_error,       \* self.last_error
    socks,            \* the listener sockets created so far: [state, port, timeout]
    loops,            \* the accept-loop threads spawned so far
    workers,          \* the handler threads created so far: "new", "running", "dead"
    ctl,              \* the control surface: the request it is serving under status_lock
    timed_out         \* history: the workers whose join() in the last stop() timed out

stores == <<denylist, cache, log, h, filled>>
life == <<running, port, server_socket, shutdown_event, client_threads, last_error,
          socks, loops, workers, ctl, timed_out>>
vars == <<stores, life>>

-----------------------------------------------------------------------------
(* The handler thread, ProxyServer._handle_client.  Each action is the code  *)
(* between two accesses to shared state or to the network.  trace records    *)
(* what the run did, in order.                                               *)

Idle == [pc |-> "idle", request_data |-> <<>>, read_end |-> "", first_line |-> FALSE,
         method |-> <<>>, url |-> <<>>, version |-> <<>>, headers |-> <<>>, body |-> <<>>,
         parsed |-> urlparse(HttpPrefix), full_url |-> <<>>,
         tgt_host |-> <<>>, tgt_port |-> 0,
         client |-> "open", upstream |-> "none",
         client_out |-> <<>>, up_out |-> <<>>, response_data |-> <<>>,
         from_client |-> <<>>, from_up |-> <<>>, rounds |-> 0, chunks |-> 0,
         log_url |-> <<>>, log_tag |-> "", log_then |-> "",
         hit_from |-> [received |-> <<>>, complete |-> FALSE], trace |-> <<>>]

(* sendall(data) on the client socket: all of it, or a prefix and an exception. *)
SendOutcomes(data) ==
    {[ok |-> TRUE, sent |-> data]}
    \cup {[ok |-> FALSE, sent |-> SubSeq(data, 1, k)] : k \in {j \in FailPrefixes : j < Len(data)}}

(* How the header read ended. *)
ReadEnd(script) ==
    LET data == recv_until_double_crlf(script)
    IN  IF contains(data, CRLFCRLF) THEN "crlfcrlf"
        ELSE IF BLen(data) >= HeaderLimit THEN "limit"
        ELSE IF script.ending = "eof" THEN "eof"
        ELSE "timeout"

format(v) == IF v = None THEN NoneText ELSE v

(* url if url.startswith('http://') else f"http://{host}{url}" *)
reconstruct(url, headers) ==
    IF startswith(url, HttpPrefix) THEN url
    ELSE HttpPrefix \o format(dict_get(headers, HostKey)) \o url

(* target.split(':', 1) unpacked into two names, then int(): ValueError.     *)
connect_target_bad(target) ==
    Len(split(target, COLON, 1)) # 2 \/ int_raises(split(target, COLON, 1)[2])

HttpsUrl(host) == HttpsPrefix \o host \o <<"/">>

(* A synthetic response is written (s is what sendall did), and the run goes *)
(* on to log_action(client_ip, url, tag), close the client socket and return.*)
respond(r, s, url, tag, marks) ==
    [r EXCEPT !.pc = "log", !.client_out = @ \o s.sent,
              !.log_url = url, !.log_tag = tag, !.log_then = "close",
              !.trace = @ \o marks]

(* The same branch without the return: the run goes on as if allowed.       *)
deny_fallthrough(r, s, url, tag) ==
    [r EXCEPT !.pc = IF tag = "blocked" THEN "arrival" ELSE "connect_dial",
              !.client_out = @ \o s.sent,
              !.trace = @ \o <<"blocked", IF s.ok THEN "w403" ELSE "wfail">>]

(* The branch taken on a positive policy check (lines 129-137, 182-189): the *)
(* 403, the log event, close, return.                                        *)
deny(r, s, url, tag) ==
    respond(r, s, url, tag, <<"blocked", IF s.ok THEN "w403" ELSE "wfail">>)

(* The acknowledgement attempted before the dial.                            *)
connect_allowed_ack_first(r) ==
    [r EXCEPT !.pc = "connect_ack", !.trace = Append(@, "allowed")]

(* The branch taken on a negative policy check of a CONNECT: on to the dial  *)
(* (line 139).                                                               *)
connect_allowed(r) ==
    [r EXCEPT !.pc = "connect_dial", !.trace = Append(@, "allowed")]

(* Lines 89-125 up to the first write or store access: header read, parse,  *)
(* URL reconstruction, dispatch on the method, CONNECT target.  The result   *)
(* is the handler's locals with pc naming the branch taken.  A ValueError    *)
(* of urlparse (line 106) reaches the outer except (lines 292-296), which    *)
(* closes the client socket; full_url is then still the url of line 105.     *)
handle_start(script) ==
    LET data   == recv_until_double_crlf(script)
        r      == parse_request(data)
        p      == urlparse(reconstruct(r.url, r.headers))
        base   == [Idle EXCEPT !.request_data = data, !.read_end = ReadEnd(script)]
        parsed == [base EXCEPT !.first_line = TRUE, !.method = r.method, !.url = r.url, !.version = r.version,
                               !.headers = r.headers, !.body = r.body,
                               !.parsed = p, !.full_url = geturl(p)]
    IN  IF data = <<>> \/ ~r.ok
        THEN [base EXCEPT !.pc = "done", !.client = "closed", !.trace = <<"close_client">>]
        ELSE IF urlparse_raises(reconstruct(r.url, r.headers))
        THEN [base EXCEPT !.first_line = TRUE, !.method = r.method, !.url = r.url,
                          !.version = r.version, !.headers = r.headers, !.body = r.body,
                          !.full_url = r.url,
                          !.pc = "done", !.client = "closed",
                          !.trace = <<"exception", "close_client">>]
        ELSE IF upper(r.method) = CONNECT
        THEN IF connect_target_bad(r.url)
             THEN [parsed EXCEPT !.pc = "bad_connect"]
             ELSE [parsed EXCEPT !.pc = "connect_filter",
                                 !.tgt_host = split(r.url, COLON, 1)[1],
                                 !.tgt_port = int(split(r.url, COLON, 1)[2])]
        ELSE [parsed EXCEPT !.pc = "filter"]

(* handle_start tabulated over the inputs. *)
Started == [script \in Scripts |-> handle_start(script)]

(* A new connection is handed to a handler thread, which runs lines 89-125.  *)
(* A bad CONNECT target is answered with the 400 here (lines 116-122).       *)
ReadAndParse(c) ==
    /\ h[c].pc \in {"idle", "done"}
    /\ Len(log) + 2 <= MaxLog
    /\ \E script \in Scripts :
         IF Started[script].pc = "bad_connect"
         THEN \E s \in SendOutcomes(Resp400) :
                h' = [h EXCEPT ![c] = respond(Started[script], s, Started[script].url,
                                              "error_bad_connect",
                                              <<IF s.ok THEN "w400" ELSE "wfail">>)]
         ELSE h' = [h EXCEPT ![c] = Started[script]]
    /\ UNCHANGED <<denylist, cache, log, filled, life>>

(* log_action(...) followed by what the code does next on that path:         *)
(* close the client socket and return, return, or go on to the relay.        *)
LogAction(c) ==
    /\ h[c].pc = "log"
    /\ log' = log_action(c, h[c].log_url, h[c].log_tag)
    /\ h' = [h EXCEPT ![c] =
               IF h[c].log_then = "close"
               THEN [@ EXCEPT !.pc = "done", !.client = "closed",
                              !.trace = @ \o <<"log_" \o h[c].log_tag, "close_client">>]
               ELSE IF h[c].log_then = "relay"
               THEN [@ EXCEPT !.pc = "tunnel", !.trace = Append(@, "log_" \o h[c].log_tag)]
               ELSE [@ EXCEPT !.pc = "done", !.trace = Append(@, "log_" \o h[c].log_tag)]]
    /\ UNCHANGED <<denylist, cache, filled, life>>

-----------------------------------------------------------------------------
(* CONNECT branch, lines 127-178.                                            *)

(* Lines 127-137: the policy check on the CONNECT target. *)
ConnectFilter(c) ==
    /\ h[c].pc = "connect_filter"
    /\ IF is_blocked(h[c].tgt_host)
       THEN \E s \in SendOutcomes(Resp403) :
              h' = [h EXCEPT ![c] = deny(@, s, HttpsUrl(h[c].tgt_host), "blocked_connect")]
       ELSE h' = [h EXCEPT ![c] = connect_allowed(@)]
    /\ UNCHANGED <<denylist, cache, log, filled, life>>

(* Lines 139-150: socket.create_connection((tgt_host, tgt_port)). *)
ConnectDial(c) ==
    /\ h[c].pc = "connect_dial"
    /\ \/ h' = [h EXCEPT ![c] = [@ EXCEPT !.pc = "connect_ack", !.upstream = "open",
                                          !.trace = Append(@, "dial_ok")]]
       \/ \E s \in SendOutcomes(Resp502) :
            h' = [h EXCEPT ![c] = respond(@, s, HttpsUrl(h[c].tgt_host), "error_connect_upstream",
                                          <<"dial_fail", IF s.ok THEN "w502" ELSE "wfail">>)]
    /\ UNCHANGED <<denylist, cache, log, filled, life>>

(* Lines 152-163: the acknowledgement; 'connect' is logged only if the write succeeded. *)
ConnectAck(c) ==
    /\ h[c].pc = "connect_ack"
    /\ \E s \in SendOutcomes(Established) :
         IF s.ok
         THEN h' = [h EXCEPT ![c] = [@ EXCEPT
                      !.pc = "log", !.client_out = @ \o s.sent,
                      !.log_url = HttpsUrl(h[c].tgt_host), !.log_tag = "connect",
                      !.log_then = "relay", !.trace = Append(@, "w200")]]
         ELSE h' = [h EXCEPT ![c] = [@ EXCEPT
                      !.pc = "done", !.client_out = @ \o s.sent,
                      !.upstream = "closed", !.client = "closed",
                      !.trace = @ \o <<"wfail", "close_upstream", "close_client">>]]
    /\ UNCHANGED <<denylist, cache, log, filled, life>>

(* _relay_bidirectional, one select() round per step.  A ready socket either *)
(* yields data, yields b'' or raises; the data is sent to the peer.          *)
SideOutcomes(chunks) ==
    {[kind |-> k, chunk |-> <<>>, s |-> [ok |-> TRUE, sent |-> <<>>]] : k \in {"eof", "err"}}
    \cup UNION {{[kind |-> "data", chunk |-> ch, s |-> so] : so \in SendOutcomes(ch)} : ch \in chunks}

ClientChunks == { <<"c">> }
UpstreamChunks == { <<"u">> }

(* The data sent back to the socket it was read from.                        *)
relay_side_echo(r, side, o) ==
    IF o.kind # "data"
    THEN [rec |-> [r EXCEPT !.trace = Append(@, "relay_" \o o.kind)], go |-> FALSE]
    ELSE IF side = "a"
    THEN [rec |-> [r EXCEPT !.from_client = @ \o o.chunk, !.client_out = @ \o o.s.sent,
                            !.trace = Append(@, IF o.s.ok THEN "relay_up" ELSE "relay_wfail")],
          go |-> o.s.ok]
    ELSE [rec |-> [r EXCEPT !.from_up = @ \o o.chunk, !.up_out = @ \o o.s.sent,
                            !.trace = Append(@, IF o.s.ok THEN "relay_down" ELSE "relay_wfail")],
          go |-> o.s.ok]

(* One socket of the ready list: returns the handler record and whether the loop goes on. *)
relay_side(r, side, o) ==
    IF o.kind # "data"
    THEN [rec |-> [r EXCEPT !.trace = Append(@, "relay_" \o o.kind)], go |-> FALSE]
    ELSE IF side = "a"
    THEN [rec |-> [r EXCEPT !.from_client = @ \o o.chunk, !.up_out = @ \o o.s.sent,
                            !.trace = Append(@, IF o.s.ok THEN "relay_up" ELSE "relay_wfail")],
          go |-> o.s.ok]
    ELSE [rec |-> [r EXCEPT !.from_up = @ \o o.chunk, !.client_out = @ \o o.s.sent,
                            !.trace = Append(@, IF o.s.ok THEN "relay_down" ELSE "relay_wfail")],
          go |-> o.s.ok]

(* The finally block followed by a return without the 'tunnel' log.         *)
tunnel_closed_silent(r) ==
    [r EXCEPT !.pc = "done", !.upstream = "closed", !.client = "closed",
              !.trace = @ \o <<"close_upstream", "close_client">>]

(* Lines 165-176: the finally block of the relay, then pc moves to the 'tunnel' log. *)
tunnel_closed(r) ==
    [r EXCEPT !.pc = "log", !.upstream = "closed", !.client = "closed",
              !.log_url = HttpsUrl(r.tgt_host), !.log_tag = "tunnel", !.log_then = "return",
              !.trace = @ \o <<"close_upstream", "close_client">>]

relay_bidirectional(c) ==
    /\ h[c].pc = "tunnel"
    /\ \/ \* select() timed out: idle for idle_timeout seconds
          h' = [h EXCEPT ![c] = tunnel_closed([@ EXCEPT !.trace = Append(@, "relay_idle")])]
       \/ \* only a (the client) is ready
          \E oa \in SideOutcomes(ClientChunks) :
            /\ oa.kind = "data" => h[c].rounds < MaxRounds
            /\ LET ra == relay_side([h[c] EXCEPT !.rounds = @ + 1], "a", oa)
               IN  h' = [h EXCEPT ![c] = IF ra.go THEN ra.rec ELSE tunnel_closed(ra.rec)]
       \/ \* only b (the upstream) is ready
          \E ob \in SideOutcomes(UpstreamChunks) :
            /\ ob.kind = "data" => h[c].rounds < MaxRounds
            /\ LET rb == relay_side([h[c] EXCEPT !.rounds = @ + 1], "b", ob)
               IN  h' = [h EXCEPT ![c] = IF rb.go THEN rb.rec ELSE tunnel_closed(rb.rec)]
       \/ \* both are ready: a is served first, b only if a did not end the relay
          \E oa \in SideOutcomes(ClientChunks), ob \in SideOutcomes(UpstreamChunks) :
            /\ oa.kind = "data" /\ oa.s.ok
            /\ h[c].rounds < MaxRounds
            /\ LET ra == relay_side([h[c] EXCEPT !.rounds = @ + 1], "a", oa)
                   rb == relay_side(ra.rec, "b", ob)
               IN  h' = [h EXCEPT ![c] = IF rb.go THEN rb.rec ELSE tunnel_closed(rb.rec)]
    /\ UNCHANGED <<denylist, cache, log, filled, life>>

-----------------------------------------------------------------------------
(* Plain-HTTP branch, lines 180-290.                                         *)

(* The cache consulted before the policy: a GET whose URL is cached is       *)
(* answered from the cache whatever the denylist says.                       *)
HttpFilterCacheFirst(c) ==
    /\ h[c].pc = "filter"
    /\ IF upper(h[c].method) = GET /\ get_from_cache(h[c].full_url) # None
       THEN \E s \in SendOutcomes(get_from_cache(h[c].full_url)) :
              h' = [h EXCEPT ![c] = respond(@, s, h[c].full_url, "cached",
                                            <<"hit", IF s.ok THEN "wcached" ELSE "wfail">>)]
       ELSE IF is_blocked(IF hostname(h[c].parsed) = None THEN <<>> ELSE hostname(h[c].parsed))
       THEN \E s \in SendOutcomes(Resp403) :
              h' = [h EXCEPT ![c] = deny(@, s, h[c].full_url, "blocked")]
       ELSE h' = [h EXCEPT ![c] = [@ EXCEPT
                      !.pc = IF upper(h[c].method) = GET THEN "cache" ELSE "arrival",
                      !.trace = Append(@, "allowed")]]
    /\ UNCHANGED <<denylist, cache, log, filled, life>>

(* Lines 180-189: is_blocked(parsed.hostname or ''). *)
HttpFilter(c) ==
    /\ h[c].pc = "filter"
    /\ IF is_blocked(IF hostname(h[c].parsed) = None THEN <<>> ELSE hostname(h[c].parsed))
       THEN \E s \in SendOutcomes(Resp403) :
              h' = [h EXCEPT ![c] = deny(@, s, h[c].full_url, "blocked")]
       ELSE h' = [h EXCEPT ![c] = [@ EXCEPT
                      !.pc = IF upper(h[c].method) = GET THEN "cache" ELSE "arrival",
                      !.trace = Append(@, "allowed")]]
    /\ UNCHANGED <<denylist, cache, log, filled, life>>

(* Lines 191-201: get_from_cache(full_url), reached only when method.upper() == 'GET'. *)
CacheLookup(c) ==
    /\ h[c].pc = "cache"
    /\ LET cached == get_from_cache(h[c].full_url)
       IN  IF cached # None
           THEN \E s \in SendOutcomes(cached) :
                  h' = [h EXCEPT ![c] =
                          respond([@ EXCEPT !.hit_from = filled[h[c].full_url]],
                                  s, h[c].full_url, "cached",
                                  <<"hit", IF s.ok THEN "wcached" ELSE "wfail">>)]
           ELSE h' = [h EXCEPT ![c] = [@ EXCEPT !.pc = "arrival", !.trace = Append(@, "miss")]]
    /\ UNCHANGED <<denylist, cache, log, filled, life>>

(* Lines 203-211 without the arrival log of line 211. *)
ArrivalSilent(c) ==
    /\ h[c].pc = "arrival"
    /\ h' = [h EXCEPT ![c] = IF port_raises(h[c].parsed)
                             THEN [@ EXCEPT !.pc = "done", !.client = "closed",
                                            !.trace = @ \o <<"exception", "close_client">>]
                             ELSE [@ EXCEPT !.pc = "dial"]]
    /\ UNCHANGED <<denylist, cache, log, filled, life>>

(* Lines 203-211: origin address, then the arrival log.  parsed.port raises  *)
(* ValueError on a malformed port; the outer except (lines 292-296) closes   *)
(* the client socket and nothing is logged.                                  *)
Arrival(c) ==
    /\ h[c].pc = "arrival"
    /\ IF port_raises(h[c].parsed)
       THEN /\ h' = [h EXCEPT ![c] = [@ EXCEPT !.pc = "done", !.client = "closed",
                                               !.trace = @ \o <<"exception", "close_client">>]]
            /\ log' = log
       ELSE /\ h' = [h EXCEPT ![c] = [@ EXCEPT !.pc = "dial",
                                               !.trace = Append(@, "log_request_http")]]
            /\ log' = log_action(c, h[c].full_url, "request_http")
    /\ UNCHANGED <<denylist, cache, filled, life>>

(* Lines 213-223: socket.create_connection((origin_host, origin_port)). *)
Dial(c) ==
    /\ h[c].pc = "dial"
    /\ \/ h' = [h EXCEPT ![c] = [@ EXCEPT !.pc = "send", !.upstream = "open",
                                          !.trace = Append(@, "dial_ok")]]
       \/ \E s \in SendOutcomes(Resp502) :
            h' = [h EXCEPT ![c] = respond(@, s, h[c].full_url, "error_upstream_connect",
                                          <<"dial_fail", IF s.ok THEN "w502" ELSE "wfail">>)]
    /\ UNCHANGED <<denylist, cache, log, filled, life>>

(* The header copy that does not drop the client's proxy-connection header.  *)
RECURSIVE header_lines_keep_proxy(_)
header_lines_keep_proxy(headers) ==
    IF headers = <<>> THEN <<>>
    ELSE IF lower(Head(headers)[1]) \in {ConnectionKey, HostKey}
         THEN header_lines_keep_proxy(Tail(headers))
         ELSE <<Head(headers)[1] \o <<":", " ">> \o Head(headers)[2]>>
              \o header_lines_keep_proxy(Tail(headers))

(* Lines 225-238: the request sent upstream. *)
RECURSIVE header_lines(_)
header_lines(headers) ==
    IF headers = <<>> THEN <<>>
    ELSE IF lower(Head(headers)[1]) \in {ProxyConnectionKey, ConnectionKey}
            \/ lower(Head(headers)[1]) = HostKey
         THEN header_lines(Tail(headers))
         ELSE <<Head(headers)[1] \o <<":", " ">> \o Head(headers)[2]>> \o header_lines(Tail(headers))

origin_path(p) == (IF p.path # <<>> THEN p.path ELSE <<"/">>)
                  \o (IF p.query # <<>> THEN <<"?">> \o p.query ELSE <<>>)

upstream_request(r) ==
    r.method \o SP \o origin_path(r.parsed) \o SP \o r.version \o CRLF
    \o join(CRLF, header_lines(r.headers)
                  \o <<HostPrefix \o r.parsed.netloc, ConnectionCloseLine>>)
    \o CRLFCRLF

(* Lines 240-243: upstream.sendall(upstream_request) and, when the body is   *)
(* not empty and the first call did not raise, upstream.sendall(body).       *)
UpstreamSendOutcomes(r) ==
    LET first == SendOutcomes(upstream_request(r))
    IN  IF r.body = <<>> THEN first
        ELSE {u \in first : ~u.ok}
             \cup {[ok |-> b.ok, sent |-> upstream_request(r) \o b.sent] :
                      b \in SendOutcomes(r.body)}

(* Lines 239-256: send the request and the body fragment upstream. *)
SendUpstream(c) ==
    /\ h[c].pc = "send"
    /\ \E u \in UpstreamSendOutcomes(h[c]) :
         IF u.ok
         THEN h' = [h EXCEPT ![c] = [@ EXCEPT !.pc = "relay", !.up_out = u.sent,
                                              !.trace = Append(@, "sent_upstream")]]
         ELSE \E s \in SendOutcomes(Resp502) :
                h' = [h EXCEPT ![c] =
                        respond([@ EXCEPT !.up_out = u.sent, !.upstream = "closed"],
                                s, h[c].full_url, "error_upstream_send",
                                <<"send_fail", "close_upstream",
                                  IF s.ok THEN "w502" ELSE "wfail">>)]
    /\ UNCHANGED <<denylist, cache, log, filled, life>>

(* The finally block without upstream.close().                              *)
relay_closed_leak(r, how) ==
    [r EXCEPT !.pc = "post", !.client = "closed",
              !.trace = @ \o <<how, "close_client">>]

(* Lines 271-279: the finally block of the relay loop. *)
relay_closed(r, how) ==
    [r EXCEPT !.pc = "post", !.upstream = "closed", !.client = "closed",
              !.trace = @ \o <<how, "close_upstream", "close_client">>]

(* response_data = chunk: only the last chunk is kept.                       *)
accumulate_last(data, chunk) == chunk

(* Line 266: response_data += chunk. *)
accumulate(data, chunk) == data \o chunk

(* Lines 258-279: one upstream.recv(4096) per step. *)
RelayResponse(c) ==
    /\ h[c].pc = "relay"
    /\ \/ h' = [h EXCEPT ![c] = relay_closed(@, "up_eof")]
       \/ h' = [h EXCEPT ![c] = relay_closed(@, "up_err")]
       \/ /\ h[c].chunks < MaxChunks
          /\ \E chunk \in OriginChunks : \E s \in SendOutcomes(chunk) :
               LET r == [h[c] EXCEPT !.chunks = @ + 1, !.from_up = @ \o chunk,
                                     !.response_data = accumulate(@, chunk),
                                     !.client_out = @ \o s.sent]
               IN  h' = [h EXCEPT ![c] = IF s.ok THEN [r EXCEPT !.trace = Append(@, "wrelay")]
                                         ELSE relay_closed(r, "wfail")]
    /\ UNCHANGED <<denylist, cache, log, filled, life>>

(* The cache fill without the test of the method.                            *)
cacheable_any_method(r) == r.response_data # <<>>

(* Line 282: the condition of the cache fill. *)
cacheable(r) == upper(r.method) = GET /\ r.response_data # <<>>

(* The else branch without its log_action call.                             *)
not_cached_silent(r) == [r EXCEPT !.pc = "done"]

(* Lines 288-290: no cache fill; the terminal event is 'forwarded'. *)
not_cached(r) == [r EXCEPT !.pc = "log", !.log_url = r.full_url, !.log_tag = "forwarded",
                           !.log_then = "return"]

(* Lines 281-290: cache fill and the choice of the terminal event. *)
PostProcess(c) ==
    /\ h[c].pc = "post"
    /\ IF cacheable(h[c])
       THEN \E ok \in InsertOutcomes :
              IF ok
              THEN /\ cache' = add_to_cache(h[c].full_url, h[c].response_data)
                   /\ filled' = [u \in (DOMAIN filled) \cup {h[c].full_url} |->
                                    IF u = h[c].full_url
                                    THEN IF h[c].client_out = h[c].from_up
                                            /\ h[c].trace[Len(h[c].trace) - 2] = "up_eof"
                                         THEN [received |-> h[c].client_out, complete |-> TRUE]
                                         ELSE [received |-> <<>>, complete |-> FALSE]
                                    ELSE filled[u]]
                   /\ h' = [h EXCEPT ![c] = [@ EXCEPT
                             !.pc = "log", !.log_url = h[c].full_url, !.log_tag = "fetched",
                             !.log_then = "return", !.trace = Append(@, "insert")]]
              ELSE /\ UNCHANGED <<cache, filled>>
                   /\ h' = [h EXCEPT ![c] = [@ EXCEPT
                             !.pc = "log", !.log_url = h[c].full_url,
                             !.log_tag = "fetched_no_cache", !.log_then = "return",
                             !.trace = Append(@, "insert_failed")]]
       ELSE /\ UNCHANGED <<cache, filled>>
            /\ h' = [h EXCEPT ![c] = not_cached(@)]
    /\ UNCHANGED <<denylist, log, life>>

-----------------------------------------------------------------------------
(* The operator, through the control surface (src/api_server.py).            *)

filter_add(domain) ==
    /\ strip(domain) # <<>>
    /\ denylist' = add_blocked(strip(domain))
    /\ UNCHANGED <<cache, log, h, filled, life>>

filter_remove(domain) ==
    /\ strip(domain) # <<>>
    /\ denylist' = remove_blocked(strip(domain))
    /\ UNCHANGED <<cache, log, h, filled, life>>

cache_clear ==
    /\ cache' = <<>>
    /\ filled' = <<>>
    /\ UNCHANGED <<denylist, log, h, life>>

logs_clear ==
    /\ log' = <<>>
    /\ UNCHANGED <<denylist, cache, h, filled, life>>


-----------------------------------------------------------------------------
(* The lifecycle controller (ProxyServer.start, stop, _accept_loop) and the  *)
(* control surface that drives it (start_proxy, stop_proxy), which holds     *)
(* status_lock for the whole of a request.  Each action is the code between  *)
(* two accesses to state that another thread reads or writes.                *)

ConfiguredPort == 8080
FallbackPorts == <<8081, 8888, 9000>>

MaxSockets == 4
MaxLoops == 2
MaxWorkers == 1

CtlIdle == [pc |-> "idle", fallback |-> 0, attempts |-> <<>>, threads |-> <<>>, j |-> 0]

is_alive(t) == workers[t] = "running"

(* start_proxy, lines 19-22: take the lock, test running, call start().      *)
(* ProxyServer.start, lines 24-27: running is FALSE here, so the early       *)
(* return is not taken; a socket is created and stored in server_socket.     *)
StartSocket ==
    /\ \/ ctl.pc = "idle" /\ ~running
       \/ ctl.pc = "start_retry"
    /\ Len(socks) < MaxSockets
    /\ Len(loops) < MaxLoops
    /\ socks' = Append(socks, [state |-> "created", port |-> 0, timeout |-> FALSE])
    /\ server_socket' = Len(socks) + 1
    /\ ctl' = [ctl EXCEPT !.pc = "start_bind", !.attempts = Append(@, port),
                          !.threads = <<>>, !.j = 0]
    /\ UNCHANGED <<running, port, shutdown_event, client_threads, last_error, loops, workers,
                   timed_out, stores>>

(* start_proxy when the proxy is already running (lines 20-21). *)
StartAlreadyRunning ==
    /\ ctl.pc = "idle" /\ running
    /\ UNCHANGED <<running, port, server_socket, shutdown_event, client_threads, last_error,
                   socks, loops, workers, ctl, timed_out, stores>>

(* Lines 28-30 (bind and listen succeed: the socket takes connections, and   *)
(* still has no timeout), or lines 34-38 (bind fails) and then start_proxy   *)
(* lines 23-28: the next fallback port, or the end of the request (line 32)  *)
(* with running = False.                                                     *)
StartBind ==
    /\ ctl.pc = "start_bind"
    /\ \/ /\ socks' = [socks EXCEPT ![server_socket].state = "listening",
                                     ![server_socket].port = port]
          /\ ctl' = [ctl EXCEPT !.pc = "start_timeout"]
          /\ UNCHANGED <<running, port, server_socket, last_error>>
       \/ /\ running' = FALSE
          /\ server_socket' = 0
          /\ last_error' = "bind"
          /\ IF ctl.fallback < Len(FallbackPorts)
             THEN /\ port' = FallbackPorts[ctl.fallback + 1]
                  /\ ctl' = [ctl EXCEPT !.pc = "start_retry", !.fallback = @ + 1]
             ELSE /\ port' = port
                  /\ ctl' = CtlIdle
          /\ UNCHANGED socks
    /\ UNCHANGED <<shutdown_event, client_threads, loops, workers, timed_out, stores>>

(* Line 31: settimeout(1.0).  Until this step an accept() entered on the     *)
(* listening socket by a loop of an earlier start() waits without limit.     *)
StartTimeout ==
    /\ ctl.pc = "start_timeout"
    /\ socks' = [socks EXCEPT ![server_socket].timeout = TRUE]
    /\ ctl' = [ctl EXCEPT !.pc = "start_flags"]
    /\ UNCHANGED <<running, port, server_socket, shutdown_event, client_threads, last_error,
                   loops, workers, timed_out, stores>>

(* Lines 32-33. *)
StartFlags ==
    /\ ctl.pc = "start_flags"
    /\ shutdown_event' = FALSE
    /\ running' = TRUE
    /\ ctl' = [ctl EXCEPT !.pc = "start_thread"]
    /\ UNCHANGED <<port, server_socket, client_threads, last_error, socks, loops, workers,
                   timed_out, stores>>

(* Lines 40-41, then start_proxy lines 29-32: the accept loop is spawned and *)
(* the request reports running = True with self.port.                        *)
StartThread ==
    /\ ctl.pc = "start_thread"
    /\ loops' = Append(loops, [pc |-> "check", sock |-> 0, timed |-> FALSE, t |-> 0,
                               born |-> server_socket])
    /\ ctl' = CtlIdle
    /\ UNCHANGED <<running, port, server_socket, shutdown_event, client_threads, last_error,
                   socks, workers, timed_out, stores>>

(* stop_proxy lines 37-40 and ProxyServer.stop lines 44-45. *)
StopFlags ==
    /\ ctl.pc = "idle" /\ running
    /\ running' = FALSE
    /\ shutdown_event' = TRUE
    /\ ctl' = [CtlIdle EXCEPT !.pc = "stop_close"]
    /\ timed_out' = {}
    /\ UNCHANGED <<port, server_socket, client_threads, last_error, socks, loops, workers,
                   stores>>

(* Lines 46-53. *)
StopClose ==
    /\ ctl.pc = "stop_close"
    /\ socks' = IF server_socket # 0
                THEN [socks EXCEPT ![server_socket].state = "closed"] ELSE socks
    /\ server_socket' = 0
    /\ ctl' = [ctl EXCEPT !.pc = "stop_snapshot"]
    /\ UNCHANGED <<running, port, shutdown_event, client_threads, last_error, loops, workers,
                   timed_out, stores>>

(* Lines 56-57. *)
StopSnapshot ==
    /\ ctl.pc = "stop_snapshot"
    /\ ctl' = [ctl EXCEPT !.pc = "stop_join", !.threads = client_threads, !.j = 1]
    /\ UNCHANGED <<running, port, server_socket, shutdown_event, client_threads, last_error,
                   socks, loops, workers, timed_out, stores>>

(* Lines 58-60, one thread of the snapshot per step: is_alive(), and if so   *)
(* join(timeout=2.0), which returns when the thread has ended or when the    *)
(* two seconds are over.                                                     *)
StopJoin ==
    /\ ctl.pc = "stop_join"
    /\ ctl.j <= Len(ctl.threads)
    /\ IF is_alive(ctl.threads[ctl.j])
       THEN ctl' = [ctl EXCEPT !.pc = "stop_joining"]
       ELSE ctl' = [ctl EXCEPT !.j = @ + 1]
    /\ UNCHANGED <<running, port, server_socket, shutdown_event, client_threads, last_error,
                   socks, loops, workers, timed_out, stores>>

StopJoinReturn ==
    /\ ctl.pc = "stop_joining"
    /\ ctl' = [ctl EXCEPT !.pc = "stop_join", !.j = @ + 1]
    /\ timed_out' = IF is_alive(ctl.threads[ctl.j])
                    THEN timed_out \cup {ctl.threads[ctl.j]} ELSE timed_out
    /\ UNCHANGED <<running, port, server_socket, shutdown_event, client_threads, last_error,
                   socks, loops, workers, stores>>

(* stop() returns, then stop_proxy line 41. *)
StopReturn ==
    /\ ctl.pc = "stop_join"
    /\ ctl.j > Len(ctl.threads)
    /\ ctl' = CtlIdle
    /\ UNCHANGED <<running, port, server_socket, shutdown_event, client_threads, last_error,
                   socks, loops, workers, timed_out, stores>>

(* _accept_loop, line 63: the loop condition. *)
LoopCheck(l) ==
    /\ loops[l].pc = "check"
    /\ loops' = [loops EXCEPT ![l].pc = IF shutdown_event THEN "cleanup" ELSE "accept"]
    /\ UNCHANGED <<running, port, server_socket, shutdown_event, client_threads, last_error,
                   socks, workers, ctl, timed_out, stores>>

(* Line 65: self.server_socket is read and accept() is called on it; the     *)
(* call waits for at most the timeout the socket has at that moment, or      *)
(* without limit when it has none.  On None the call raises AttributeError,  *)
(* which `except Exception: continue` (lines 71-72) turns into another pass  *)
(* of the loop.                                                              *)
LoopAccept(l) ==
    /\ loops[l].pc = "accept"
    /\ loops' = IF server_socket = 0
                THEN [loops EXCEPT ![l].pc = "check"]
                ELSE [loops EXCEPT ![l].pc = "in_accept", ![l].sock = server_socket,
                                   ![l].timed = socks[server_socket].timeout]
    /\ UNCHANGED <<running, port, server_socket, shutdown_event, client_threads, last_error,
                   socks, workers, ctl, timed_out, stores>>

(* Lines 65-74: accept() returns.  On a socket that is not yet listening it  *)
(* raises OSError (break).  A call with the one-second timeout on a          *)
(* listening socket times out (continue) or returns a connection, for which  *)
(* the handler thread object is created.  stop() closes the listener without *)
(* any synchronisation with a loop blocked in accept() on it: a call with    *)
(* the timeout then ends with OSError (bad descriptor: break) or, when the   *)
(* descriptor number has been taken over by a descriptor the process opened  *)
(* in the meantime (the socket of a later start(), a handler's upstream      *)
(* connection, a connection of the control surface), with socket.timeout     *)
(* (continue).  A call without timeout waits inside the system call, which   *)
(* keeps the listener alive after it was closed: it ends only by returning   *)
(* a connection.                                                             *)
AcceptReturn(l) ==
    LET s == socks[loops[l].sock]
        Break == loops' = [loops EXCEPT ![l].pc = "cleanup", ![l].sock = 0, ![l].timed = FALSE]
        Continue == loops' = [loops EXCEPT ![l].pc = "check", ![l].sock = 0, ![l].timed = FALSE]
    IN  /\ loops[l].pc = "in_accept"
        /\ \/ /\ s.state = "created" \/ (s.state = "closed" /\ loops[l].timed)
              /\ Break
              /\ UNCHANGED workers
           \/ /\ s.state \in {"listening", "closed"} /\ loops[l].timed
              /\ Continue
              /\ UNCHANGED workers
           \/ /\ s.state = "listening" \/ (s.state = "closed" /\ ~loops[l].timed)
              /\ Len(workers) < MaxWorkers
              /\ workers' = Append(workers, "new")
              /\ loops' = [loops EXCEPT ![l].pc = "register", ![l].t = Len(workers) + 1]
        /\ UNCHANGED <<running, port, server_socket, shutdown_event, client_threads, last_error,
                       socks, ctl, timed_out, stores>>

(* Lines 75-76. *)
LoopRegister(l) ==
    /\ loops[l].pc = "register"
    /\ client_threads' = Append(client_threads, loops[l].t)
    /\ loops' = [loops EXCEPT ![l].pc = "start"]
    /\ UNCHANGED <<running, port, server_socket, shutdown_event, last_error,
                   socks, workers, ctl, timed_out, stores>>

(* Line 77. *)
LoopStart(l) ==
    /\ loops[l].pc = "start"
    /\ workers' = [workers EXCEPT ![loops[l].t] = "running"]
    /\ loops' = [loops EXCEPT ![l].pc = "check", ![l].sock = 0, ![l].timed = FALSE,
                              ![l].t = 0]
    /\ UNCHANGED <<running, port, server_socket, shutdown_event, client_threads, last_error,
                   socks, ctl, timed_out, stores>>

(* Lines 79-81. *)
LoopCleanup(l) ==
    /\ loops[l].pc = "cleanup"
    /\ client_threads' = SelectSeq(client_threads, is_alive)
    /\ loops' = [loops EXCEPT ![l].pc = "done"]
    /\ UNCHANGED <<running, port, server_socket, shutdown_event, last_error,
                   socks, workers, ctl, timed_out, stores>>

(* A handler thread runs _handle_client to its end (lines 88-296). *)
WorkerFinish(t) ==
    /\ workers[t] = "running"
    /\ workers' = [workers EXCEPT ![t] = "dead"]
    /\ UNCHANGED <<running, port, server_socket, shutdown_event, client_threads, last_error,
                   socks, loops, ctl, timed_out, stores>>

(* get_active_thread_count, lines 83-86. *)
get_active_thread_count ==
    Len(SelectSeq(client_threads, is_alive))

Init ==
    /\ denylist = {}
    /\ cache = <<>>
    /\ log = <<>>
    /\ h = [c \in Conns |-> Idle]
    /\ filled = <<>>
    /\ running = FALSE
    /\ port = ConfiguredPort
    /\ server_socket = 0
    /\ shutdown_event = FALSE
    /\ client_threads = <<>>
    /\ last_error = ""
    /\ socks = <<>>
    /\ loops = <<>>
    /\ workers = <<>>
    /\ ctl = CtlIdle
    /\ timed_out = {}

Next ==
    \/ \E c \in Conns : ReadAndParse(c)
    \/ \E c \in Conns : LogAction(c)
    \/ \E c \in Conns : ConnectFilter(c)
    \/ \E c \in Conns : ConnectDial(c)
    \/ \E c \in Conns : ConnectAck(c)
    \/ \E c \in Conns : relay_bidirectional(c)
    \/ \E c \in Conns : HttpFilter(c)
    \/ \E c \in Conns : CacheLookup(c)
    \/ \E c \in Conns : Arrival(c)
    \/ \E c \in Conns : Dial(c)
    \/ \E c \in Conns : SendUpstream(c)
    \/ \E c \in Conns : RelayResponse(c)
    \/ \E c \in Conns : PostProcess(c)
    \/ \E d \in Domains : filter_add(d)
    \/ \E d \in Domains : filter_remove(d)
    \/ cache_clear
    \/ logs_clear

Spec == Init /\ [][Next]_vars

NextLife ==
    \/ StartSocket
    \/ StartAlreadyRunning
    \/ StartBind
    \/ StartTimeout
    \/ StartFlags
    \/ StartThread
    \/ StopFlags
    \/ StopClose
    \/ StopSnapshot
    \/ StopJoin
    \/ StopJoinReturn
    \/ StopReturn
    \/ \E l \in 1..Len(loops) : LoopCheck(l)
    \/ \E l \in 1..Len(loops) : LoopAccept(l)
    \/ \E l \in 1..Len(loops) : AcceptReturn(l)
    \/ \E l \in 1..Len(loops) : LoopRegister(l)
    \/ \E l \in 1..Len(loops) : LoopStart(l)
    \/ \E l \in 1..Len(loops) : LoopCleanup(l)
    \/ \E t \in 1..Len(workers) : WorkerFinish(t)

SpecLife == Init /\ [][NextLife]_vars

-----------------------------------------------------------------------------
(* Vocabulary of the properties.                                             *)

LogTags == {"request_http", "fetched", "fetched_no_cache", "forwarded", "cached", "blocked",
            "blocked_connect", "connect", "tunnel", "error_bad_connect",
            "error_connect_upstream", "error_upstream_connect", "error_upstream_send"}
LogMark(tag) == "log_" \o tag
IsLogMark(e) == \E tag \in LogTags : e = LogMark(tag)

(* The log events a run has appended, in order. *)
Events(r) == SelectSeq(r.trace, IsLogMark)

Has(tr, e) == \E i \in 1..Len(tr) : tr[i] = e
Dialled(r) == Has(r.trace, "dial_ok") \/ Has(r.trace, "dial_fail")
(* Every occurrence of b in tr has an occurrence of a before it. *)
Precedes(tr, a, b) == \A i \in 1..Len(tr) : tr[i] = b => \E j \in 1..(i - 1) : tr[j] = a
IsPrefix(p, s) == Len(p) <= Len(s) /\ SubSeq(s, 1, Len(p)) = p
IsConnect(r) == r.first_line /\ upper(r.method) = CONNECT
IsForward(r) == r.first_line /\ upper(r.method) # CONNECT

-----------------------------------------------------------------------------
(* C1: a handler run whose policy check finds the target host in the         *)
(* denylist performs no upstream connect(): in every run the policy check    *)
(* comes before any dial, and after a positive check the run writes the 403  *)
(* (or fails to write it), opens no upstream socket and ends without a dial. *)
C1_BlockedNeverDials ==
    \A c \in Conns :
      /\ Precedes(h[c].trace, "allowed", "dial_ok")
      /\ Precedes(h[c].trace, "allowed", "dial_fail")
      /\ Has(h[c].trace, "blocked") =>
           /\ ~Dialled(h[c])
           /\ ~Has(h[c].trace, "allowed")
           /\ h[c].upstream = "none"
           /\ h[c].up_out = <<>>
           /\ IsPrefix(h[c].client_out, Resp403)
           /\ h[c].pc \in {"log", "done"}
           /\ h[c].pc = "done" => Events(h[c]) \in {<<LogMark("blocked")>>, <<LogMark("blocked_connect")>>}

C1_Witness ==
    \E c \in Conns :
      /\ h[c].pc = "done"
      /\ Has(h[c].trace, "blocked")
      /\ h[c].client_out = Resp403
      /\ IsForward(h[c])
      /\ lower(hostname(h[c].parsed)) \in denylist

(* C2 as stated: every cache insert was made by a run whose request method   *)
(* is GET; a run with any other method never inserts.                        *)
C2_OnlyMethodGetInserts ==
    \A c \in Conns : Has(h[c].trace, "insert") => IsForward(h[c]) /\ h[c].method = GET

(* C2 amended: only a run whose method is GET in some letter case (the       *)
(* handler tests method.upper() == 'GET') inserts into the cache; a POST or  *)
(* CONNECT run never does, and every cache entry is keyed by a URL and holds *)
(* a non-empty response.                                                     *)
C2_OnlyGetInserts ==
    /\ \A c \in Conns : Has(h[c].trace, "insert") => IsForward(h[c]) /\ upper(h[c].method) = GET
    /\ \A u \in DOMAIN cache : startswith(u, HttpPrefix) /\ cache[u] # <<>>

C2_Witness ==
    \E c \in Conns :
      /\ h[c].pc = "done"
      /\ upper(h[c].method) # GET
      /\ h[c].response_data # <<>>
      /\ Events(h[c]) = <<LogMark("request_http"), LogMark("forwarded")>>
      /\ h[c].full_url \notin DOMAIN cache

(* C3: in a CONNECT run the 200 line is written only after the dial has      *)
(* succeeded, relayed bytes reach the client only after the 200 line, and    *)
(* what the client has received begins with (a prefix of) a synthetic        *)
(* 400/403/502 response when no dial succeeded and with the 200 line when    *)
(* one did.                                                                  *)
C3_AckAfterDial ==
    \A c \in Conns : IsConnect(h[c]) =>
      /\ Precedes(h[c].trace, "dial_ok", "w200")
      /\ Precedes(h[c].trace, "w200", "relay_down")
      /\ Precedes(h[c].trace, "w200", "relay_up")
      /\ Has(h[c].trace, "dial_fail") => ~Has(h[c].trace, "w200")
      /\ IF Has(h[c].trace, "dial_ok")
         THEN IsPrefix(h[c].client_out, Established) \/ startswith(h[c].client_out, Established)
         ELSE \E resp \in {Resp400, Resp403, Resp502} : IsPrefix(h[c].client_out, resp)
      /\ h[c].from_up # <<>> => startswith(h[c].client_out, Established)

C3_Witness ==
    \E c \in Conns :
      /\ IsConnect(h[c])
      /\ h[c].pc = "done"
      /\ h[c].client_out = Established \o <<"u">>
      /\ Events(h[c]) = <<LogMark("connect"), LogMark("tunnel")>>

(* C4: a GET that finds its URL in the cache, the entry having been inserted *)
(* by a run whose relay ended by upstream EOF with every chunk written to    *)
(* its client and not purged since, and whose own write to the client        *)
(* succeeds: its client receives exactly the bytes the client of the         *)
(* inserting run received, it performs no upstream dial and opens no         *)
(* upstream socket, and the one event it logs is 'cached'.                   *)
C4_SecondGetFromCache ==
    \A c \in Conns :
      (Has(h[c].trace, "hit") /\ Has(h[c].trace, "wcached") /\ h[c].hit_from.complete) =>
        /\ h[c].client_out = h[c].hit_from.received
        /\ h[c].client_out # <<>>
        /\ ~Dialled(h[c])
        /\ h[c].upstream = "none"
        /\ h[c].pc \in {"log", "done"}
        /\ h[c].pc = "log" => h[c].log_tag = "cached"
        /\ h[c].pc = "done" => Events(h[c]) = <<LogMark("cached")>>

C4_Witness ==
    \E c \in Conns :
      /\ h[c].pc = "done"
      /\ Has(h[c].trace, "wcached")
      /\ h[c].hit_from.complete
      /\ h[c].client_out = <<"o","k","o","k">>
      /\ Events(h[c]) = <<LogMark("cached")>>

(* C5 as stated: a run whose start line parsed and that ended without an     *)
(* unanticipated exception has appended exactly one log event.               *)
C5_ExactlyOneEvent ==
    \A c \in Conns :
      (h[c].pc = "done" /\ h[c].first_line /\ ~Has(h[c].trace, "exception")) =>
        Len(Events(h[c])) = 1

TerminalForward == {LogMark("error_upstream_connect"), LogMark("error_upstream_send"),
                    LogMark("fetched"), LogMark("fetched_no_cache"), LogMark("forwarded")}
TerminalSingle == {LogMark("blocked"), LogMark("blocked_connect"), LogMark("cached"),
                   LogMark("error_bad_connect"), LogMark("error_connect_upstream")}

(* C5 amended: such a run appends exactly one terminal event, except that a  *)
(* CONNECT run whose 200 line cannot be written appends none; a forwarder    *)
(* run that passed the policy and cache checks appends 'request_http' before *)
(* its terminal event, and an acknowledged tunnel appends 'connect' before   *)
(* the terminal 'tunnel'.  So the run appends one event on the blocked,      *)
(* cache-hit, bad-CONNECT and CONNECT-dial-failure paths and two on the      *)
(* forward and tunnel paths.                                                 *)
C5_OneTerminalEvent ==
    \A c \in Conns :
      (h[c].pc = "done" /\ h[c].first_line /\ ~Has(h[c].trace, "exception")) =>
        LET ev == Events(h[c])
        IN  IF Has(h[c].trace, "miss") \/ (Has(h[c].trace, "allowed") /\ IsForward(h[c])
                                           /\ ~Has(h[c].trace, "hit"))
            THEN Len(ev) = 2 /\ ev[1] = LogMark("request_http") /\ ev[2] \in TerminalForward
            ELSE IF Has(h[c].trace, "w200")
            THEN ev = <<LogMark("connect"), LogMark("tunnel")>>
            ELSE IF IsConnect(h[c]) /\ Has(h[c].trace, "dial_ok")
            THEN ev = <<>>
            ELSE Len(ev) = 1 /\ ev[1] \in TerminalSingle

C5_Witness ==
    \E c \in Conns :
      /\ h[c].pc = "done"
      /\ Events(h[c]) = <<LogMark("request_http"), LogMark("fetched")>>
      /\ h[c].client_out = <<"o","k">>

(* C7 as stated: a non-CONNECT request whose target does not begin with      *)
(* 'http://' and that carries a Host header, in any letter case, with value  *)
(* V is reconstructed to 'http://' + V + target.                             *)
C7_HostHeaderAnyCase ==
    \A c \in Conns :
      (IsForward(h[c]) /\ ~startswith(h[c].url, HttpPrefix)) =>
        \A i \in 1..Len(h[c].headers) :
          lower(h[c].headers[i][1]) = HostKey =>
            /\ h[c].full_url = HttpPrefix \o h[c].headers[i][2] \o h[c].url
            /\ hostname(h[c].parsed) = lower(h[c].headers[i][2])

(* C8 as stated: a header read that ended without CRLF CRLF (timeout, b'',   *)
(* or 64 KiB accumulated) closes the connection with no dispatch, no dial,   *)
(* no response and no log event.                                             *)
C8_DispatchOnlyAfterCrlfCrlf ==
    \A c \in Conns :
      (h[c].pc # "idle" /\ h[c].read_end # "crlfcrlf") =>
        /\ ~h[c].first_line
        /\ h[c].pc = "done"
        /\ h[c].trace = <<"close_client">>
        /\ h[c].client_out = <<>>

(* C10 as stated: 'request_http' is appended only after the upstream dial    *)
(* has succeeded, and a run whose dial fails never appends it.               *)
C10_ArrivalAfterDial ==
    \A c \in Conns : IsForward(h[c]) =>
      /\ Precedes(h[c].trace, "dial_ok", LogMark("request_http"))
      /\ Has(h[c].trace, "dial_fail") => ~Has(h[c].trace, LogMark("request_http"))

(* C10 amended: 'request_http' is appended before the upstream dial is       *)
(* attempted: every forwarder run that dials has appended 'request_http'     *)
(* first, and a run whose dial fails appends 'request_http' and then         *)
(* 'error_upstream_connect'.                                                 *)
C10_ArrivalBeforeDial ==
    \A c \in Conns : IsForward(h[c]) =>
      /\ Precedes(h[c].trace, LogMark("request_http"), "dial_ok")
      /\ Precedes(h[c].trace, LogMark("request_http"), "dial_fail")
      /\ (h[c].pc = "done" /\ Has(h[c].trace, "dial_fail")) =>
           Events(h[c]) = <<LogMark("request_http"), LogMark("error_upstream_connect")>>

C10_Witness ==
    \E c \in Conns :
      /\ h[c].pc = "done"
      /\ IsForward(h[c])
      /\ Has(h[c].trace, "dial_fail")
      /\ h[c].client_out = Resp502
      /\ Events(h[c]) = <<LogMark("request_http"), LogMark("error_upstream_connect")>>

-----------------------------------------------------------------------------
(* Properties of the lifecycle, checked under SpecLife.                      *)

(* stop() has returned and no start() has succeeded since. *)
Stopped == ctl.pc = "idle" /\ ~running /\ shutdown_event

(* C6 as stated: once stop() has returned no connection is accepted and no   *)
(* worker is registered or started, and every worker still alive is one      *)
(* whose join() in stop() timed out.                                         *)
C6_NothingAfterStop ==
    [][Stopped => /\ Len(workers') = Len(workers)
                  /\ Len(client_threads') <= Len(client_threads)
                  /\ \A t \in 1..Len(workers) : is_alive(t)' => is_alive(t)
                  /\ \A t \in 1..Len(workers) : is_alive(t) => t \in timed_out]_vars

PortOrder == <<ConfiguredPort>> \o FallbackPorts

(* C9 as stated: a start request made while the proxy is stopped tries the   *)
(* configured port 8080 first and then 8081, 8888, 9000 in that order up to  *)
(* the first that binds; it ends running on the port it bound, or not        *)
(* running after all four failed.                                            *)
C9_StartsAtConfiguredPort ==
    [][(ctl.pc \in {"start_bind", "start_thread"} /\ ctl'.pc = "idle") =>
         /\ IsPrefix(ctl.attempts, PortOrder)
         /\ ctl.attempts # <<>>
         /\ running' => /\ port' = ctl.attempts[Len(ctl.attempts)]
                        /\ socks'[server_socket'].state = "listening"
                        /\ socks'[server_socket'].port = port'
         /\ ~running' => ctl.attempts = PortOrder]_vars

(* C11: the policy check precedes the cache check.  A forwarder run looks    *)
(* its URL up in the cache only after a negative policy check; a run whose   *)
(* policy check was positive (whether or not its URL is in the cache) never  *)
(* consults the cache, writes nothing but the 403 with body                  *)
(* '<h1>Access Denied</h1>' to the client, and logs 'blocked' and never      *)
(* 'cached'.                                                                 *)
C11_PolicyBeforeCache ==
    \A c \in Conns : IsForward(h[c]) =>
      /\ Precedes(h[c].trace, "allowed", "hit")
      /\ Precedes(h[c].trace, "allowed", "miss")
      /\ Has(h[c].trace, "blocked") =>
           /\ ~Has(h[c].trace, "hit") /\ ~Has(h[c].trace, "miss")
           /\ ~Has(h[c].trace, "wcached")
           /\ IsPrefix(h[c].client_out, Resp403)
           /\ Has(h[c].trace, "w403") => h[c].client_out = Resp403
           /\ ~Has(h[c].trace, LogMark("cached"))
           /\ h[c].pc = "log" => h[c].log_tag = "blocked"
           /\ h[c].pc = "done" => Events(h[c]) = <<LogMark("blocked")>>

C11_Witness ==
    \E c \in Conns :
      /\ h[c].pc = "done"
      /\ upper(h[c].method) = GET
      /\ h[c].full_url \in DOMAIN cache
      /\ Has(h[c].trace, "blocked")
      /\ h[c].client_out = make_http_response(403, ForbiddenReason, AccessDeniedBody)
      /\ Events(h[c]) = <<LogMark("blocked")>>

(* C12 as stated: the cache insert is made only by a run whose relay loop    *)
(* ended by upstream EOF with every chunk read also written to the client;   *)
(* a relay ended by an upstream read error or timeout, or by a failed write  *)
(* to the client, is followed by no insert.                                  *)
C12_InsertOnlyAfterCompleteRelay ==
    /\ \A c \in Conns :
         Has(h[c].trace, "insert") =>
           /\ Has(h[c].trace, "up_eof")
           /\ ~Has(h[c].trace, "up_err")
           /\ ~Has(h[c].trace, "wfail")
           /\ h[c].client_out = h[c].from_up
    /\ \A u \in DOMAIN cache : filled[u].complete

(* C13 as stated: a forwarder run whose method is GET never appends          *)
(* 'forwarded' (after a relay its terminal event is 'fetched' or             *)
(* 'fetched_no_cache'), and a run whose method is not GET and which reached  *)
(* the relay appends 'forwarded'.                                            *)
C13_ForwardedOnlyNonGet ==
    \A c \in Conns : IsForward(h[c]) =>
      /\ upper(h[c].method) = GET =>
           /\ ~Has(h[c].trace, LogMark("forwarded"))
           /\ (h[c].pc = "done" /\ Has(h[c].trace, "sent_upstream")) =>
                Events(h[c])[Len(Events(h[c]))] \in {LogMark("fetched"), LogMark("fetched_no_cache")}
      /\ (upper(h[c].method) # GET /\ h[c].pc = "done" /\ Has(h[c].trace, "sent_upstream")) =>
           Events(h[c]) = <<LogMark("request_http"), LogMark("forwarded")>>

Count(tr, e) == Cardinality({i \in 1..Len(tr) : tr[i] = e})

(* C14: a CONNECT run that has appended 'connect' is in the relay or about   *)
(* to log 'tunnel', and in both places its next step is enabled, until it    *)
(* has appended 'tunnel'; it appends 'tunnel' exactly once, after 'connect'  *)
(* and after both sockets were closed, as its last event, and then ends.  A  *)
(* run that appended no 'connect' never appends 'tunnel'.                    *)
C14_TunnelAfterConnect ==
    \A c \in Conns :
      LET tr == h[c].trace
      IN  /\ Precedes(tr, LogMark("connect"), LogMark("tunnel"))
          /\ Precedes(tr, "close_upstream", LogMark("tunnel"))
          /\ Precedes(tr, "close_client", LogMark("tunnel"))
          /\ Count(tr, LogMark("tunnel")) <= 1
          /\ Has(tr, LogMark("tunnel")) =>
               /\ tr[Len(tr)] = LogMark("tunnel")
               /\ h[c].pc = "done"
               /\ h[c].client = "closed" /\ h[c].upstream = "closed"
               /\ Events(h[c]) = <<LogMark("connect"), LogMark("tunnel")>>
          /\ (Has(tr, LogMark("connect")) /\ ~Has(tr, LogMark("tunnel"))) =>
               \/ h[c].pc = "tunnel" /\ ENABLED relay_bidirectional(c)
               \/ h[c].pc = "log" /\ h[c].log_tag = "tunnel" /\ ENABLED LogAction(c)

C14_Witness ==
    \E c \in Conns :
      /\ h[c].pc = "done"
      /\ Has(h[c].trace, "relay_idle")
      /\ h[c].from_client # <<>>
      /\ h[c].trace[Len(h[c].trace)] = LogMark("tunnel")
      /\ Count(h[c].trace, LogMark("connect")) = 1

(* What the client has received after the 200 line. *)
AfterAck(r) == SubSeq(r.client_out, Len(Established) + 1, Len(r.client_out))

(* C15: at every point of a tunnel relay, what has been written to the       *)
(* client after the 200 line is a prefix of what has been read from the      *)
(* upstream, and what has been written to the upstream is a prefix of what   *)
(* has been read from the client; no byte goes back to the side it came      *)
(* from, and a CONNECT run never writes to the cache.                        *)
C15_TunnelVerbatim ==
    \A c \in Conns : (IsConnect(h[c]) /\ Has(h[c].trace, "w200")) =>
         /\ startswith(h[c].client_out, Established)
         /\ IsPrefix(AfterAck(h[c]), h[c].from_up)
         /\ IsPrefix(h[c].up_out, h[c].from_client)
         /\ \A i \in 1..Len(AfterAck(h[c])) : AfterAck(h[c])[i] \in {ch[1] : ch \in UpstreamChunks}
         /\ \A i \in 1..Len(h[c].up_out) : h[c].up_out[i] \in {ch[1] : ch \in ClientChunks}
         /\ ~Has(h[c].trace, "insert")
         /\ h[c].response_data = <<>>

C15_Witness ==
    \E c \in Conns :
      /\ h[c].pc = "tunnel"
      /\ h[c].from_client = <<"c">> /\ h[c].up_out = <<"c">>
      /\ h[c].from_up = <<"u">> /\ AfterAck(h[c]) = <<"u">>

(* C17: when a handler run has ended, on whatever path, the client socket    *)
(* is closed and the upstream socket, if one was opened, is closed; the      *)
(* upstream socket is open only between a successful dial and the end of     *)
(* the relay.                                                                *)
C17_SocketsClosedAtExit ==
    \A c \in Conns :
      /\ h[c].pc = "done" =>
           /\ h[c].client = "closed"
           /\ h[c].upstream \in {"none", "closed"}
           /\ Has(h[c].trace, "close_client")
           /\ Has(h[c].trace, "dial_ok") => h[c].upstream = "closed" /\ Has(h[c].trace, "close_upstream")
      /\ h[c].upstream # "none" => Has(h[c].trace, "dial_ok")
      /\ h[c].upstream = "open" => h[c].pc \in {"connect_ack", "log", "tunnel", "send", "relay"}

C17_Witness ==
    \E c \in Conns :
      /\ h[c].pc = "done"
      /\ IsForward(h[c])
      /\ Has(h[c].trace, "up_err")
      /\ h[c].client = "closed" /\ h[c].upstream = "closed"

(* The hostname a run dials: the CONNECT target host, or the hostname of the *)
(* reconstructed URL.                                                        *)
DialTarget(r) ==
    IF IsConnect(r) THEN r.tgt_host
    ELSE IF hostname(r.parsed) = None THEN <<>> ELSE hostname(r.parsed)

(* C20 as stated: at the step in which a handler issues its upstream         *)
(* connect() to hostname H, H is not a member of the denylist, also when H   *)
(* was added after the handler's policy check.                               *)
C20_NotBlockedAtDial ==
    [][\A c \in Conns :
         (h[c].pc \in {"dial", "connect_dial"} /\ h'[c].pc # h[c].pc) =>
           ~is_blocked(DialTarget(h[c]))]_vars

-----------------------------------------------------------------------------
(* Properties of the worker set and the accept loops, checked under SpecLife. *)

Registered == {client_threads[i] : i \in 1..Len(client_threads)}
LiveLoops == {l \in 1..Len(loops) : loops[l].pc # "done"}

(* C18 as stated: a worker is in the worker set from the moment it is        *)
(* spawned and is removed when its handler completes, so while the listener  *)
(* is running the set holds only workers whose handler has not completed.    *)
C18_SetHoldsOnlyLiveWorkers ==
    /\ \A t \in 1..Len(workers) : is_alive(t) => t \in Registered
    /\ running => \A t \in Registered : workers[t] # "dead"

(* C19 as stated: at most one accept-loop thread is running at any time,     *)
(* and an accept loop never calls accept() on a listener socket other than   *)
(* the one created by the start() that spawned it.                           *)
C19_OneAcceptLoop ==
    /\ Cardinality(LiveLoops) <= 1
    /\ \A l \in 1..Len(loops) :
         (loops[l].pc = "in_accept" /\ socks[loops[l].sock].state = "listening") =>
           loops[l].sock = loops[l].born

-----------------------------------------------------------------------------
(* The header lines of a request as they stand on the wire: the lines        *)
(* between the request line and the empty line that carry a colon, each as   *)
(* <<name, value>> with the surrounding blanks removed.                      *)

WireHeader(line) == LET kv == split(line, COLON, 1) IN <<strip(kv[1]), strip(kv[2])>>
HasColon(line) == contains(line, COLON)
WireHeaders(data) ==
    LET lines == SelectSeq(Tail(splitall(split(data, CRLFCRLF, 1)[1], CRLF)), HasColon)
    IN  [i \in 1..Len(lines) |-> WireHeader(lines[i])]
Named(hs, key) == {i \in 1..Len(hs) : lower(hs[i][1]) = key}
IsEndToEnd(hd) == lower(hd[1]) \notin {HostKey, ConnectionKey, ProxyConnectionKey}
CloseValue == <<"c","l","o","s","e">>

(* The part of C16 about the three rewritten names: one host header with the *)
(* netloc of the reconstructed URL, one connection header with the value     *)
(* close, no proxy-connection header.                                        *)
RewrittenOnce(up, netloc) ==
    /\ Cardinality(Named(up, HostKey)) = 1
    /\ \A i \in Named(up, HostKey) : up[i][2] = netloc
    /\ Cardinality(Named(up, ConnectionKey)) = 1
    /\ \A i \in Named(up, ConnectionKey) : up[i][2] = CloseValue
    /\ Named(up, ProxyConnectionKey) = {}

(* C16 as stated: for every forwarded request, whatever the set and letter   *)
(* case of the client's header names, the request sent upstream has exactly  *)
(* one host header (the netloc of the reconstructed URL), exactly one        *)
(* connection header (close), no proxy-connection header, and every other    *)
(* client header unchanged.                                                  *)
C16_UpstreamHeaders ==
    \A c \in Conns :
      Has(h[c].trace, "sent_upstream") =>
        LET up == WireHeaders(h[c].up_out)
        IN  /\ RewrittenOnce(up, h[c].parsed.netloc)
            /\ SelectSeq(up, IsEndToEnd)
                 = SelectSeq(WireHeaders(h[c].request_data), IsEndToEnd)

(* The last-wins rule for a repeated header name: the name is kept once, at  *)
(* the place of its first occurrence, with the value of its last occurrence. *)
(* Names are compared as spelled.                                            *)
LastWins(hs) ==
    LET IsFirst(i) == \A j \in 1..(i - 1) : hs[j][1] # hs[i][1]
        Last(i) == CHOOSE j \in i..Len(hs) :
                     /\ hs[j][1] = hs[i][1]
                     /\ \A k \in (j + 1)..Len(hs) : hs[k][1] # hs[i][1]
        marked == [i \in 1..Len(hs) |-> <<hs[i][1], hs[Last(i)][2], IsFirst(i)>>]
        kept == SelectSeq(marked, LAMBDA m : m[3])
    IN  [i \in 1..Len(kept) |-> <<kept[i][1], kept[i][2]>>]

(* C16 amended: for every forwarded request, whatever the set and letter     *)
(* case of the client's header names, the request sent upstream has exactly  *)
(* one host header (the netloc of the reconstructed URL), exactly one        *)
(* connection header (close), no proxy-connection header, and every other    *)
(* client header unchanged and in the client's order, except that a name the *)
(* client sends more than once in the same spelling is sent once, with the   *)
(* value of its last occurrence.                                             *)
C16_UpstreamHeadersLastWins ==
    \A c \in Conns :
      Has(h[c].trace, "sent_upstream") =>
        LET up == WireHeaders(h[c].up_out)
        IN  /\ RewrittenOnce(up, h[c].parsed.netloc)
            /\ SelectSeq(up, IsEndToEnd)
                 = LastWins(SelectSeq(WireHeaders(h[c].request_data), IsEndToEnd))

C16_Witness ==
    \E c \in Conns :
      /\ Has(h[c].trace, "sent_upstream")
      /\ Named(WireHeaders(h[c].request_data), HostKey) # {}
      /\ Named(WireHeaders(h[c].request_data), ProxyConnectionKey) # {}
      /\ LastWins(WireHeaders(h[c].request_data)) # WireHeaders(h[c].request_data)
      /\ Len(SelectSeq(WireHeaders(h[c].up_out), IsEndToEnd)) = 1

====
